---- MODULE Spec2Model ----
(***************************************************************************)
(* Model of package.py, the packaging script of Robot Framework, and of    *)
(* the listener ListenImports of its acceptance tests.                     *)
(*                                                                         *)
(* Strings of the program are sequences of one-character strings, so that  *)
(* the regular expressions of VERSIONS and RELEASES, the '%d%02d%02d'      *)
(* formatting and the quoting of the generated version.py are computed,    *)
(* not assumed.  None (an absent release_tag) is the one-element sequence  *)
(* <<"None">>, which no string of characters equals.                       *)
(***************************************************************************)
EXTENDS Integers, Sequences, FiniteSets, TLC

\* ------------------------------------------------------------------ bounds
\* Longest version_number / release_tag enumerated character by character.
MaxVerLen == 5
MaxTagLen == 3
\* Number of invocations of package.py in one behaviour.
MaxRuns == 2
\* Most components of a path given to the listener, and most import calls
\* the listener sees.
MaxDepth == 3
MaxImports == 2

\* ----------------------------------------------------------------- strings
None == <<"None">>
S_trunk == <<"t", "r", "u", "n", "k">>
S_keep == <<"k", "e", "e", "p">>
S_final == <<"f", "i", "n", "a", "l">>
S_alpha == <<"a", "l", "p", "h", "a">>
S_alpha2 == <<"a", "l", "p", "h", "a", "2">>
S_beta == <<"b", "e", "t", "a">>
S_a1 == <<"a", "1">>
S_rc2 == <<"r", "c", "2">>
S_2_7 == <<"2", ".", "7">>
S_3_0 == <<"3", ".", "0">>
S_2_1_13 == <<"2", ".", "1", ".", "1", "3">>
S_bogus == <<"x">>
NL == "\n"
QUOTE == "'"

DigitChars == <<"0", "1", "2", "3", "4", "5", "6", "7", "8", "9">>

IsDigit(c) == \E i \in 1..10 : DigitChars[i] = c

\* All strings over alphabet A of length at most n.
StringsUpTo(A, n) == UNION {[1..k -> A] : k \in 0..n}

\* ------------------------------------------------- regular expressions (re)
\* A pattern is matched by following the set of positions the match can
\* have reached; position p means that s[1..p-1] has been consumed.

\* A literal string lit consumed from one of the positions P.
ReLit(s, P, lit) ==
    {p + Len(lit) : p \in {q \in P : /\ q + Len(lit) - 1 <= Len(s)
                                     /\ \A i \in 1..Len(lit) : s[q + i - 1] = lit[i]}}

\* \d* from one of the positions P.
ReDigitsStar(s, P) ==
    {q \in 1..(Len(s) + 1) : \E p \in P : /\ p <= q
                                           /\ \A i \in p..(q - 1) : IsDigit(s[i])}

\* \d+ from one of the positions P.
ReDigitsPlus(s, P) == {q \in ReDigitsStar(s, P) : \E p \in P : p < q /\ \A i \in p..(q - 1) : IsDigit(s[i])}

\* '$' without re.MULTILINE: at the end of the string, or just before a
\* newline that is the last character of the string.
ReAtEnd(s, p) == \/ p = Len(s) + 1
                 \/ p = Len(s) /\ s[p] = NL

\* The pattern with any first component: '^\d+\.\d+(\.\d+)?$'.
ReVersionMutant(s) ==
    LET P1 == ReDigitsPlus(s, {1})
        P2 == ReDigitsPlus(s, ReLit(s, P1, <<".">>))
        P3 == P2 \cup ReDigitsPlus(s, ReLit(s, P2, <<".">>))
    IN  \E p \in P3 : ReAtEnd(s, p)

\* re.compile('^2\.\d+(\.\d+)?$').search(s)
ReVersion(s) ==
    LET P1 == ReLit(s, {1}, <<"2", ".">>)
        P2 == ReDigitsPlus(s, P1)
        P3 == P2 \cup ReDigitsPlus(s, ReLit(s, P2, <<".">>))
    IN  \E p \in P3 : ReAtEnd(s, p)

\* re.compile('^a\d*$'), re.compile('^b\d*$'), re.compile('^rc\d*$')
RePrefixDigits(prefix, s) ==
    \E p \in ReDigitsStar(s, ReLit(s, {1}, prefix)) : ReAtEnd(s, p)

\* item.search(given) for the compiled pattern named name.
ReSearch(name, s) ==
    CASE name = "version" -> ReVersion(s)
      [] name = "a" -> RePrefixDigits(<<"a">>, s)
      [] name = "b" -> RePrefixDigits(<<"b">>, s)
      [] name = "rc" -> RePrefixDigits(<<"r", "c">>, s)

\* The lists VERSIONS and RELEASES: compiled patterns and plain strings.
VERSIONS == <<[re |-> TRUE, name |-> "version", str |-> <<>>],
              [re |-> FALSE, name |-> "", str |-> S_trunk],
              [re |-> FALSE, name |-> "", str |-> S_keep]>>

RELEASES == <<[re |-> TRUE, name |-> "a", str |-> <<>>],
              [re |-> TRUE, name |-> "b", str |-> <<>>],
              [re |-> TRUE, name |-> "rc", str |-> <<>>],
              [re |-> FALSE, name |-> "", str |-> S_final]>>

\* _verify_version(given, valid): the loop from item i on.  The result is
\* the exception raised ("none": given is returned).  A compiled pattern
\* searched with None raises TypeError.
RECURSIVE VerifyFrom(_, _, _)
VerifyFrom(given, valid, i) ==
    IF i > Len(valid) THEN "ValueError"
    ELSE LET item == valid[i] IN
         IF ~item.re /\ given = item.str THEN "none"
         ELSE IF item.re /\ given = None THEN "TypeError"
         ELSE IF item.re /\ ReSearch(item.name, given) THEN "none"
         ELSE VerifyFrom(given, valid, i + 1)

verify_version(given, valid) == VerifyFrom(given, valid, 1)

\* ------------------------------------------------------ '%d' and '%02d'
RECURSIVE FormatD(_)
FormatD(n) == IF n < 10 THEN <<DigitChars[n + 1]>>
              ELSE FormatD(n \div 10) \o <<DigitChars[(n % 10) + 1]>>

Format02d(n) == IF n < 10 THEN <<"0">> \o FormatD(n) ELSE FormatD(n)

\* time.localtime()[:6] is <<year, month, day, hour, minute, second>>.
\* '%d%02d%02d' % time.localtime()[:3]
FormatDate(t) == FormatD(t[1]) \o Format02d(t[2]) \o Format02d(t[3])

\* '%d%02d%02d-%02d%02d%02d' % time.localtime()[:6]
FormatTimestamp(t) ==
    FormatDate(t) \o <<"-">> \o Format02d(t[4]) \o Format02d(t[5]) \o Format02d(t[6])

\* The values time.localtime() takes in the model, in increasing order.
Times == {<<2013, 1, 5, 9, 3, 7>>, <<2026, 11, 6, 23, 59, 59>>}

TimeLeq(t, u) == t = u \/ t[1] < u[1]

\* ------------------------------------------------ the generated version.py
\* VERSION_CONTENT % locals(): the three assignments of the generated
\* module, each value substituted between single quotes.  The file is kept
\* as the text to the right of each '='.
VERSION_CONTENT(version_number, release_tag, timestamp) ==
    [VERSION |-> <<QUOTE>> \o version_number \o <<QUOTE>>,
     RELEASE |-> <<QUOTE>> \o release_tag \o <<QUOTE>>,
     TIMESTAMP |-> <<QUOTE>> \o timestamp \o <<QUOTE>>]

\* Python reading a single-quoted literal (the alphabet of the model holds
\* no backslash): it ends at the next quote; a newline before that quote is
\* 'EOL while scanning string literal', text after it is a syntax error too.
LiteralEnd(text) ==
    LET stops == {j \in 2..Len(text) : text[j] = QUOTE \/ text[j] = NL}
    IN  IF stops = {} THEN 0
        ELSE CHOOSE j \in stops : \A k \in stops : j <= k

LiteralOk(text) ==
    /\ Len(text) >= 2
    /\ text[1] = QUOTE
    /\ LiteralEnd(text) = Len(text)
    /\ text[Len(text)] = QUOTE

LiteralValue(text) == SubSeq(text, 2, Len(text) - 1)

\* 'from version import get_version': whether the file compiles, and the
\* module's globals when it does.  The import compiles the text of the
\* file; the interpreter's byte-code cache is not part of the model.
ImportOk(file) ==
    LiteralOk(file.VERSION) /\ LiteralOk(file.RELEASE) /\ LiteralOk(file.TIMESTAMP)

ImportVersion(file) ==
    [VERSION |-> LiteralValue(file.VERSION),
     RELEASE |-> LiteralValue(file.RELEASE),
     TIMESTAMP |-> LiteralValue(file.TIMESTAMP)]

\* get_version(sep) of the generated module.
get_version(mod, sep) ==
    IF mod.RELEASE = S_final THEN mod.VERSION
    ELSE mod.VERSION \o sep \o mod.RELEASE

\* _update_version(version_number, release_tag) at local time t.
update_version(version_number, release_tag, t) ==
    VERSION_CONTENT(version_number, release_tag, FormatTimestamp(t))

\* ------------------------------------------------------------- version()
\* The release tag verified for 'trunk' as well.
ReleaseForMutant(version_number, release_tag, t) ==
    [exc |-> verify_version(release_tag, RELEASES),
     tag |-> IF version_number = S_trunk THEN FormatDate(t) ELSE release_tag]

\* The release tag _update_version is called with, and the exception its
\* computation raises: the date for 'trunk', else the verified release_tag.
ReleaseFor(version_number, release_tag, t) ==
    IF version_number = S_trunk
    THEN [exc |-> "none", tag |-> FormatDate(t)]
    ELSE [exc |-> verify_version(release_tag, RELEASES), tag |-> release_tag]

\* 'if version_number == 'keep'': every other version_number rewrites
\* version.py.
Writes(version_number) == version_number # S_keep

\* version(version_number, release_tag) run on the file `file` at local
\* time t.  The result holds the exception raised ("none": returned) and
\* the statement that raised it, the file afterwards, whether the file was
\* written, and the value returned.
version(version_number, release_tag, file, t) ==
    LET v == verify_version(version_number, VERSIONS)
        r == ReleaseFor(version_number, release_tag, t)
        written == v = "none" /\ Writes(version_number) /\ r.exc = "none"
        after == IF written THEN update_version(version_number, r.tag, t) ELSE file
        at == IF v # "none" THEN "version_number"
              ELSE IF Writes(version_number) /\ r.exc # "none" THEN "release_tag"
              ELSE IF ~ImportOk(after) THEN "import"
              ELSE "none"
        exc == CASE at = "version_number" -> v
                 [] at = "release_tag" -> r.exc
                 [] at = "import" -> "SyntaxError"
                 [] OTHER -> "none"
    IN  [exc |-> exc,
         at |-> at,
         file |-> after,
         written |-> written,
         ret |-> IF exc = "none" THEN get_version(ImportVersion(after), <<>>) ELSE None]

\* version(*version_info): Python binds one or two arguments and raises
\* TypeError for any other number before the body runs.
call_version(version_info, file, t) ==
    IF Len(version_info) = 0 \/ Len(version_info) > 2
    THEN [exc |-> "TypeError", at |-> "call", file |-> file, written |-> FALSE,
          ret |-> None]
    ELSE version(version_info[1],
                 IF Len(version_info) = 2 THEN version_info[2] ELSE None,
                 file, t)

\* ------------------------------------------------------------- the host
\* os.sep is '\\' on Windows only.
Hosts == {"posix", "windows"}

\* How an external program started with os.system ends: it exits with a
\* code, or (POSIX) a signal kills it.
ToolEnds == {[how |-> "exit", n |-> 0], [how |-> "exit", n |-> 1],
             [how |-> "signal", n |-> 2]}

\* What os.system returns: the exit code on Windows, the 16-bit wait status
\* on POSIX (exit code in the high byte, killing signal in the low byte).
os_system(h, e) ==
    IF h = "windows" THEN e.n
    ELSE IF e.how = "exit" THEN e.n * 256 ELSE e.n

\* The exit status the parent of package.py sees after sys.exit(rc): the
\* C library keeps the low 8 bits on POSIX.
sys_exit(h, rc) == IF h = "windows" THEN rc ELSE rc % 256

\* How a program started with subprocess.check_call ends: it returns 0, it
\* returns non-zero (CalledProcessError), or it cannot be started (OSError).
CallEnds == {"ok", "nonzero", "notfound"}

\* check_call's ends, and the file operation of the same stage failing.
StageEnds == CallEnds \cup {"fserror"}

\* A file operation: done, or an error of the file system or the archive.
FileEnds == {"ok", "fserror"}

\* The exception a stage of jar() raises for the way it ended.
StageException(end) ==
    CASE end = "ok" -> "none"
      [] end = "nonzero" -> "CalledProcessError"
      [] end = "notfound" -> "OSError"
      [] end = "fserror" -> "IOError"

\* ------------------------------------------------------- the file system
NoTmp == [exists |-> FALSE, files |-> {}, manifest |-> None]
EmptyTmp == [exists |-> TRUE, files |-> {}, manifest |-> None]
NoDist == [exists |-> FALSE, files |-> {}]
S_jython_manifest == <<"j", "y", "t", "h", "o", "n">>

\* The version.py of the checkout package.py starts from.
InitVersionFile ==
    VERSION_CONTENT(S_trunk, FormatDate(<<2013, 1, 5>>),
                    FormatTimestamp(<<2013, 1, 5, 9, 3, 7>>))

InitFs == [version |-> InitVersionFile,
           dist |-> NoDist,
           build |-> FALSE,
           extlib |-> [exists |-> FALSE, jar |-> FALSE],
           tmp |-> NoTmp]

\* ------------------------------------------------------------ the process
VARIABLES
    host,       \* the platform package.py runs on
    now,        \* what time.localtime() returns
    fs,         \* version.py, dist, build, ext-lib and tmp-jar-dir
    runs,       \* invocations of package.py started so far
    pc,         \* where the running invocation is
    cmd,        \* sys.argv[1], or "absent"
    args,       \* sys.argv[2:]
    fs0,        \* the file system when the invocation started
    ver,        \* what version() returned to the invocation
    exc,        \* the exception propagating, [type, arg]
    failure,    \* the stage of jar() that failed and how, [stage, kind]
    trace,      \* the steps the invocation has executed, in order
    out,        \* what the invocation has printed, in order
    exitCode,   \* the exit status of the invocation, -1 while it runs
    keepRets,   \* what the calls of version('keep') returned, in order, since
                \* version.py was last written
    imports,    \* the file of the listener ListenImports: [open, lines]
    imported    \* the arguments of the listener's last import call

\* The variables of package.py, and those of the listener.
pvars == <<host, now, fs, runs, pc, cmd, args, fs0, ver, exc, failure, trace, out,
           exitCode, keepRets>>
lvars == <<imports, imported>>

vars == <<pvars, lvars>>

\* No listener is running: its file is not open and nothing was imported.
NoFile == [open |-> FALSE, lines |-> <<>>]
NoImport == [type |-> "none", name |-> "", attrs |-> <<>>]

NoExc == [type |-> "none", arg |-> 0]
Exc(type) == [type |-> type, arg |-> 0]
NoFailure == [stage |-> "none", kind |-> "none"]

\* The functions package.py's globals() holds under the command names.
CommandTable == {"sdist", "wininst", "all", "version", "jar"}

\* sys.argv[1] in the model: the commands, a name globals() does not hold,
\* and no argument at all.
Commands == CommandTable \cup {"nosuch", "absent"}

\* sys.argv[2:] in the model.
MainArgs == {<<>>, <<S_keep>>, <<S_trunk>>, <<S_trunk, S_final>>,
             <<S_2_7>>, <<S_2_7, S_final>>, <<S_2_7, S_a1>>, <<S_2_7, S_alpha>>,
             <<S_3_0, S_final>>, <<S_2_7, S_final, S_final>>}

Init ==
    /\ host \in Hosts
    /\ now \in Times
    /\ fs = InitFs
    /\ runs = 0
    /\ pc = "idle"
    /\ cmd = "absent"
    /\ args = <<>>
    /\ fs0 = InitFs
    /\ ver = None
    /\ exc = NoExc
    /\ failure = NoFailure
    /\ trace = <<>>
    /\ out = <<>>
    /\ exitCode = -1
    /\ keepRets = <<>>
    /\ imports = NoFile
    /\ imported = NoImport

\* package.py is started with command c and arguments a.
Start(c, a) ==
    /\ pc = "idle"
    /\ runs < MaxRuns
    /\ runs' = runs + 1
    /\ pc' = "main"
    /\ cmd' = c
    /\ args' = a
    /\ UNCHANGED <<lvars, host, now, fs, fs0, ver, exc, failure, trace, out, exitCode, keepRets>>

\* A line of standard output: the message and what it is about.
Line(msg, what) == <<msg, what>>

\* The first step of each command function.
Entry(c) == IF c = "jar" THEN "get_jython_jar" ELSE "version"

\* globals()[sys.argv[1]](*sys.argv[2:])
Dispatch ==
    /\ pc = "main"
    /\ IF cmd = "absent"
       THEN pc' = "except" /\ exc' = Exc("IndexError")
       ELSE IF cmd \notin CommandTable
       THEN pc' = "except" /\ exc' = Exc("KeyError")
       ELSE pc' = Entry(cmd) /\ exc' = exc
    /\ UNCHANGED <<lvars, host, now, fs, runs, cmd, args, fs0, ver, failure, trace, out,
                   exitCode, keepRets>>

\* The step that follows version() in each command function.
AfterVersion(c) ==
    CASE c = "version" -> "return"
      [] c = "jar" -> "create_tmpdir"
      [] OTHER -> "clean"

\* What version() prints.
VersionOutput(r) ==
    IF r.written THEN <<Line("Updated version to", "")>>
    ELSE IF r.exc = "none" THEN <<Line("Keeping version", "")>>
    ELSE <<>>

\* version(*version_info), the first statement of sdist, wininst and all,
\* the command 'version' itself, and the third statement of jar.  Both
\* calls of time.localtime() return now.
Version ==
    /\ pc = "version"
    /\ LET r == call_version(args, fs.version, now) IN
         /\ fs' = [fs EXCEPT !.version = r.file]
         /\ ver' = r.ret
         /\ out' = out \o VersionOutput(r)
         /\ exc' = IF r.exc = "none" THEN exc ELSE Exc(r.exc)
         /\ failure' = IF r.exc = "none" THEN failure
                       ELSE [stage |-> r.at, kind |-> r.exc]
         /\ pc' = IF r.exc = "none" THEN AfterVersion(cmd) ELSE "except"
         /\ keepRets' = IF r.written THEN <<>>
                        ELSE IF r.exc = "none" THEN Append(keepRets, r.ret)
                        ELSE keepRets
    /\ trace' = Append(trace, "version")
    /\ UNCHANGED <<lvars, host, now, runs, cmd, args, fs0, exitCode>>

\* _clean(): dist and build are removed when they exist.
Clean ==
    /\ pc = "clean"
    /\ fs' = [fs EXCEPT !.dist = NoDist, !.build = FALSE]
    /\ out' = Append(out, Line("Cleaning up...", ""))
    /\ trace' = Append(trace, "clean")
    /\ pc' = IF cmd = "wininst" THEN "verify_platform" ELSE "create_sdist"
    /\ UNCHANGED <<lvars, host, now, runs, cmd, args, fs0, ver, exc, failure, exitCode, keepRets>>

\* The file setup.py leaves in dist: its name holds the version read from
\* version.py.
Artifact(kind, file) ==
    [kind |-> kind,
     ver |-> IF ImportOk(file) THEN get_version(ImportVersion(file), <<>>) ELSE None]

\* A _create that prints the failure and goes on, without sys.exit(rc).
create_mutant(step, name, rc, next) ==
    /\ trace' = Append(trace, step)
    /\ exc' = exc
    /\ pc' = next
    /\ out' = out \o <<Line("Creating", name),
                        Line(IF rc # 0 THEN "Creating failed" ELSE "created successfully", name)>>

\* _create(command, name) after os.system returned rc, for the step `step`
\* of the command function: the failure is printed and sys.exit(rc) raises
\* SystemExit, or the success is printed and the function goes on to `next`.
create(step, name, rc, next) ==
    /\ trace' = Append(trace, step)
    /\ IF rc # 0
       THEN /\ out' = out \o <<Line("Creating", name), Line("Creating failed", name)>>
            /\ exc' = [type |-> "SystemExit", arg |-> rc]
            /\ pc' = "except"
       ELSE /\ out' = out \o <<Line("Creating", name), Line("created successfully", name)>>
            /\ exc' = exc
            /\ pc' = next

\* _create_sdist()
CreateSdist ==
    /\ pc = "create_sdist"
    /\ \E e \in ToolEnds :
         LET rc == os_system(host, e) IN
           /\ create("create_sdist", "source distribution", rc,
                     IF cmd = "sdist" THEN "announce" ELSE "verify_platform")
           /\ fs' = IF rc = 0
                    THEN [fs EXCEPT !.dist = [exists |-> TRUE,
                                              files |-> @.files \cup {Artifact("sdist", fs.version)}]]
                    ELSE fs
    /\ UNCHANGED <<lvars, host, now, runs, cmd, args, fs0, ver, failure, exitCode, keepRets>>

\* A platform test that has the comparison of os.sep the wrong way round.
verify_platform_mutant(version_info, h) ==
    LET release_tag == IF Len(version_info) = 2 THEN version_info[2] ELSE None
    IN  ~(release_tag = S_final /\ h = "windows")

\* _verify_platform(version_number, release_tag=None)
verify_platform(version_info, h) ==
    LET release_tag == IF Len(version_info) = 2 THEN version_info[2] ELSE None
    IN  ~(release_tag = S_final /\ h # "windows")

\* 'if _verify_platform(*version_info):' of wininst and all.
VerifyPlatform ==
    /\ pc = "verify_platform"
    /\ trace' = Append(trace, "verify_platform")
    /\ IF verify_platform(args, host)
       THEN /\ pc' = "create_wininst"
            /\ out' = out
       ELSE /\ pc' = IF cmd = "wininst" THEN "return" ELSE "announce"
            /\ out' = Append(out, Line("was not created", "Windows installer"))
    /\ UNCHANGED <<lvars, host, now, fs, runs, cmd, args, fs0, ver, exc, failure, exitCode,
                   keepRets>>

\* _create_wininst(); the warning that follows a build on another platform
\* is not kept in out.
CreateWininst ==
    /\ pc = "create_wininst"
    /\ \E e \in ToolEnds :
         LET rc == os_system(host, e) IN
           /\ create("create_wininst", "Windows installer", rc, "announce")
           /\ fs' = IF rc = 0
                    THEN [fs EXCEPT !.dist = [exists |-> TRUE,
                                              files |-> @.files \cup {Artifact("wininst", fs.version)}],
                                    !.build = TRUE]
                    ELSE fs
    /\ UNCHANGED <<lvars, host, now, runs, cmd, args, fs0, ver, failure, exitCode, keepRets>>

\* _announce(): os.listdir(DIST_PATH) raises OSError when dist is absent.
Announce ==
    /\ pc = "announce"
    /\ trace' = Append(trace, "announce")
    /\ IF fs.dist.exists
       THEN pc' = "return" /\ exc' = exc /\ out' = Append(out, Line("Created:", ""))
       ELSE pc' = "except" /\ exc' = Exc("OSError") /\ out' = Append(out, Line("Created:", ""))
    /\ UNCHANGED <<lvars, host, now, fs, runs, cmd, args, fs0, ver, failure, exitCode, keepRets>>

\* _get_jython_jar(): the cached jar is used; without one ext-lib is
\* created when absent and urllib.urlretrieve downloads the jar, which may
\* fail with IOError.
GetJythonJar ==
    /\ pc = "get_jython_jar"
    /\ IF fs.extlib.jar
       THEN /\ fs' = fs
            /\ exc' = exc
            /\ pc' = "version"
            /\ trace' = Append(trace, "get_jython_jar")
            /\ out' = Append(out, Line("Using Jython", ""))
       ELSE \E ok \in BOOLEAN :
            /\ fs' = [fs EXCEPT !.extlib = [exists |-> TRUE, jar |-> ok]]
            /\ trace' = trace \o <<"get_jython_jar", "download">>
            /\ exc' = IF ok THEN exc ELSE Exc("IOError")
            /\ pc' = IF ok THEN "version" ELSE "except"
            /\ out' = out \o <<Line("Jython not found, going to download from", "")>>
                          \o (IF ok THEN <<Line("Using Jython", "")>> ELSE <<>>)
    /\ UNCHANGED <<lvars, host, now, runs, cmd, args, fs0, ver, failure, exitCode, keepRets>>

\* _create_tmpdir(): a tmp-jar-dir left behind is removed, and a new, empty
\* one is made.
CreateTmpdir ==
    /\ pc = "create_tmpdir"
    /\ fs' = [fs EXCEPT !.tmp = EmptyTmp]
    /\ trace' = Append(trace, "create_tmpdir")
    /\ pc' = "compile_java_classes"
    /\ UNCHANGED <<lvars, host, now, runs, cmd, args, fs0, ver, exc, failure, out, exitCode,
                   keepRets>>

\* Handlers that catch OSError where the code catches CalledProcessError.
jar_handler_mutant(stage, type) ==
    IF type = "OSError"
    THEN [pc |-> "rmtree", out |-> <<Line("Unable to compile java classes!", "javac")>>]
    ELSE [pc |-> "except", out |-> <<>>]

\* The handlers of jar(): the inner 'except CalledProcessError' is around
\* _create_jar_file alone, the outer one around every stage; both print and
\* fall through to shutil.rmtree(tmpdir).  Any other exception leaves jar().
jar_handler(stage, type) ==
    IF type = "CalledProcessError"
    THEN [pc |-> "rmtree",
          out |-> IF stage = "create_jar_file"
                  THEN <<Line("Unable to create jar!", "jar")>>
                  ELSE <<Line("Unable to compile java classes!", "javac")>>]
    ELSE [pc |-> "except", out |-> <<>>]

\* What a stage that raised has already done: _create_jar_file makes dist
\* before it starts the jar tool.
left_behind(stage, end) ==
    IF stage = "create_jar_file" /\ end \in {"nonzero", "notfound"}
    THEN [fs EXCEPT !.dist.exists = TRUE]
    ELSE fs

\* A stage of the try block of jar() ending in `end`: on "ok" the stage's
\* effect `done` on tmp-jar-dir and dist is installed and `next` follows;
\* otherwise the exception goes to the handlers.
Stage(stage, end, done, next) ==
    /\ pc = stage
    /\ trace' = Append(trace, stage)
    /\ IF end = "ok"
       THEN /\ fs' = done
            /\ pc' = next
            /\ exc' = exc
            /\ failure' = failure
            /\ out' = out
       ELSE LET h == jar_handler(stage, StageException(end)) IN
            /\ fs' = left_behind(stage, end)
            /\ pc' = h.pc
            /\ exc' = IF h.pc = "except" THEN Exc(StageException(end)) ELSE exc
            /\ failure' = [stage |-> stage, kind |-> end]
            /\ out' = out \o h.out
    /\ UNCHANGED <<lvars, host, now, runs, cmd, args, fs0, ver, exitCode, keepRets>>

\* _compile_java_classes(tmpdir, jython_jar): os.listdir, then javac -d tmpdir.
CompileJavaClasses ==
    \E end \in StageEnds :
      Stage("compile_java_classes", end,
            [fs EXCEPT !.tmp.files = @ \cup {"org/robotframework/*.class"}],
            "unzip_jython_jar")

\* _unzip_jython_jar(tmpdir, jython_jar): the jar's library, with sources
\* and compiled classes, and its manifest.
UnzipJythonJar ==
    \E end \in FileEnds :
      Stage("unzip_jython_jar", end,
            [fs EXCEPT !.tmp.files = @ \cup {"Lib/*.py", "Lib/*$py.class"},
                       !.tmp.manifest = S_jython_manifest],
            "copy_robot_files")

\* _copy_robot_files(tmpdir): src/robot without *.pyc, htmldata/testdata
\* removed.
CopyRobotFiles ==
    \E end \in FileEnds :
      Stage("copy_robot_files", end,
            [fs EXCEPT !.tmp.files = @ \cup {"Lib/robot/*.py"}],
            "compile_all_py_files")

\* A removal that walks the library of Jython instead of Lib/robot.
compile_all_py_files_mutant(files) ==
    (files \cup {"Lib/*$py.class", "Lib/robot/*$py.class"}) \ {"Lib/*.py"}

\* The files of tmp-jar-dir after _compile_all_py_files: compileall puts a
\* $py.class next to every .py of the tree, then os.walk over Lib/robot
\* removes every file there that ends with '.py'.
compile_all_py_files(files) ==
    (files \cup {"Lib/*$py.class", "Lib/robot/*$py.class"}) \ {"Lib/robot/*.py"}

\* _compile_all_py_files(tmpdir, jython_jar)
CompileAllPyFiles ==
    \E end \in StageEnds :
      Stage("compile_all_py_files", end,
            [fs EXCEPT !.tmp.files = compile_all_py_files(@)],
            "overwrite_manifest")

\* A jar() without the call of _overwrite_manifest: the manifest stays the
\* one of the Jython jar.
OverwriteManifestMutant ==
    \E end \in FileEnds :
      Stage("overwrite_manifest", end, fs, "create_jar_file")

\* _overwrite_manifest(tmpdir, version)
OverwriteManifest ==
    \E end \in FileEnds :
      Stage("overwrite_manifest", end,
            [fs EXCEPT !.tmp.manifest = ver],
            "create_jar_file")

\* _create_jar_file(source, version): dist is made when absent, and
\* 'jar cvfM' packs tmp-jar-dir into dist/robotframework-<version>.jar.
CreateJarFile ==
    \E end \in StageEnds :
      Stage("create_jar_file", end,
            [fs EXCEPT !.dist = [exists |-> TRUE,
                                 files |-> @.files \cup {[kind |-> "jar", ver |-> ver]}]],
            "rmtree")

\* shutil.rmtree(tmpdir), the last statement of jar().
RemoveTmpdir ==
    /\ pc = "rmtree"
    /\ fs' = [fs EXCEPT !.tmp = NoTmp]
    /\ trace' = Append(trace, "rmtree")
    /\ pc' = "return"
    /\ UNCHANGED <<lvars, host, now, runs, cmd, args, fs0, ver, exc, failure, out, exitCode,
                   keepRets>>

\* The exceptions the 'except' clause of the main block catches.
UsageErrors == {"KeyError", "IndexError", "TypeError", "ValueError"}

\* The exit status of the process for the exception e that reached the main
\* block: the caught ones print the usage and the script ends normally,
\* SystemExit carries its argument, any other one is a traceback and 1.
main_exit(h, e) ==
    IF e.type = "none" \/ e.type \in UsageErrors THEN 0
    ELSE IF e.type = "SystemExit" THEN sys_exit(h, e.arg)
    ELSE 1

\* The end of the main block: the command function returned or raised.
Exit ==
    /\ pc \in {"return", "except"}
    /\ pc' = "exited"
    /\ exitCode' = main_exit(host, exc)
    /\ out' = IF exc.type \in UsageErrors THEN Append(out, Line("__doc__", "")) ELSE out
    /\ UNCHANGED <<lvars, host, now, fs, runs, cmd, args, fs0, ver, exc, failure, trace, keepRets>>

\* The process is gone: nothing of the invocation is left but the files.
Gone ==
    /\ pc = "exited"
    /\ pc' = "idle"
    /\ cmd' = "absent"
    /\ args' = <<>>
    /\ fs0' = fs
    /\ ver' = None
    /\ exc' = NoExc
    /\ failure' = NoFailure
    /\ trace' = <<>>
    /\ out' = <<>>
    /\ exitCode' = -1
    /\ now' \in {t \in Times : TimeLeq(now, t)}
    /\ UNCHANGED <<lvars, host, fs, runs, keepRets>>

Next ==
    \/ \E c \in Commands, a \in MainArgs : Start(c, a)
    \/ Dispatch
    \/ Version
    \/ Clean
    \/ CreateSdist
    \/ VerifyPlatform
    \/ CreateWininst
    \/ Announce
    \/ GetJythonJar
    \/ CreateTmpdir
    \/ CompileJavaClasses
    \/ UnzipJythonJar
    \/ CopyRobotFiles
    \/ CompileAllPyFiles
    \/ OverwriteManifest
    \/ CreateJarFile
    \/ RemoveTmpdir
    \/ Exit
    \/ Gone

Spec == Init /\ [][Next]_vars

\* ------------------------------------------- version() on its own inputs
\* The command 'version' alone, its arguments enumerated character by
\* character: version numbers over VerAlphabet with a few release tags,
\* and a few version numbers with release tags over TagAlphabet.
VerAlphabet == {"2", "3", ".", NL}
TagAlphabet == {"a", "b", "r", "c", "1", NL}

SomeVersions == {S_2_7, S_2_1_13, S_3_0, S_trunk, S_keep, S_2_7 \o <<NL>>}
SomeTags == {S_final, S_alpha, S_alpha2, S_beta, S_a1, S_rc2, S_bogus}

AllVersions == StringsUpTo(VerAlphabet, MaxVerLen) \cup SomeVersions
AllTags == StringsUpTo(TagAlphabet, MaxTagLen) \cup SomeTags

SomeVersionArgs ==
    {<<v>> : v \in SomeVersions} \cup {<<v, t>> : v \in SomeVersions, t \in SomeTags}

AllVersionArgs ==
    {<<v>> : v \in AllVersions}
      \cup {<<v, t>> : v \in AllVersions, t \in SomeTags}
      \cup {<<v, t>> : v \in SomeVersions, t \in AllTags}

\* The first invocation takes every argument list, the later ones a few.
VersionArgs == IF runs = 0 THEN AllVersionArgs ELSE SomeVersionArgs

\* A version.py of a final release.
FinalVersionFile ==
    VERSION_CONTENT(S_2_7, S_final, FormatTimestamp(<<2013, 1, 5, 9, 3, 7>>))

InitVersion ==
    /\ host = "posix"
    /\ now \in Times
    /\ fs \in {[InitFs EXCEPT !.version = f] : f \in {InitVersionFile, FinalVersionFile}}
    /\ runs = 0
    /\ pc = "idle"
    /\ cmd = "absent"
    /\ args = <<>>
    /\ fs0 = fs
    /\ ver = None
    /\ exc = NoExc
    /\ failure = NoFailure
    /\ trace = <<>>
    /\ out = <<>>
    /\ exitCode = -1
    /\ keepRets = <<>>
    /\ imports = NoFile
    /\ imported = NoImport

NextVersion ==
    \/ \E a \in VersionArgs : Start("version", a)
    \/ Dispatch
    \/ Version
    \/ Exit
    \/ Gone

SpecVersion == InitVersion /\ [][NextVersion]_vars

\* ------------------------------------------------ the listener ListenImports
\* The values of the attributes the listener is given: a Python list of
\* strings or a string, strings being sequences of characters.
List(l) == [kind |-> "list", val |-> l]
Str(s) == [kind |-> "str", val |-> s]

S_init_py == <<"_", "_", "i", "n", "i", "t", "_", "_", ".", "p", "y">>
S_py_class == <<"$", "p", "y", ".", "c", "l", "a", "s", "s">>
S_pyc == <<".", "p", "y", "c">>
S_py == <<".", "p", "y">>

\* from robot.utils import is_string
is_string(entry) == entry.kind = "str"

\* os.sep
os_sep(h) == IF h = "windows" THEN "\\" ELSE "/"

\* ntpath.splitdrive(s)[1] for a path with or without a drive letter.
splitdrive(s) == IF Len(s) >= 2 /\ s[2] = ":" THEN SubSeq(s, 3, Len(s)) ELSE s

\* os.path.isabs: posixpath looks for a leading '/', ntpath for a leading
\* '/' or '\\' after the drive.
isabs(h, s) ==
    IF h = "windows"
    THEN LET r == splitdrive(s) IN r # <<>> /\ r[1] \in {"/", "\\"}
    ELSE s # <<>> /\ s[1] = "/"

\* s.replace(old, new): every occurrence of old, left to right, without
\* overlap.
RECURSIVE Replace(_, _, _)
Replace(s, old, new) ==
    IF Len(s) < Len(old) THEN s
    ELSE IF SubSeq(s, 1, Len(old)) = old
    THEN new \o Replace(SubSeq(s, Len(old) + 1, Len(s)), old, new)
    ELSE <<s[1]>> \o Replace(Tail(s), old, new)

\* s.split(sep) for a separator of one character.
RECURSIVE Split(_, _)
Split(s, sep) ==
    IF \A i \in 1..Len(s) : s[i] # sep THEN <<s>>
    ELSE LET i == CHOOSE k \in 1..Len(s) :
                     s[k] = sep /\ \A j \in 1..(k - 1) : s[j] # sep
         IN  <<SubSeq(s, 1, i - 1)>> \o Split(SubSeq(s, i + 1, Len(s)), sep)

\* sep.join(tokens)
RECURSIVE Join(_, _)
Join(tokens, sep) ==
    IF tokens = <<>> THEN <<>>
    ELSE IF Len(tokens) = 1 THEN tokens[1]
    ELSE tokens[1] \o sep \o Join(Tail(tokens), sep)

\* tokens[index:] for a negative index.
SliceFrom(tokens, index) ==
    LET first == IF Len(tokens) + index + 1 < 1 THEN 1 ELSE Len(tokens) + index + 1
    IN  SubSeq(tokens, first, Len(tokens))

\* A _pretty that leaves the file name out when it is '__init__.py' and
\* shows the directory path instead.
pretty_mutant(h, entry) ==
    IF entry.kind = "list" THEN <<"[">> \o Join(entry.val, <<",", " ">>) \o <<"]">>
    ELSE IF is_string(entry) /\ isabs(h, entry.val)
    THEN LET e == Replace(Replace(entry.val, S_py_class, S_py), S_pyc, S_py)
             tokens == Split(e, os_sep(h))
         IN  IF tokens[Len(tokens)] # S_init_py
             THEN <<"/", "/">> \o Join(SliceFrom(tokens, -1), <<"/">>)
             ELSE <<"/", "/">> \o Join(SubSeq(tokens, 1, Len(tokens) - 1), <<"/">>)
    ELSE entry.val

\* ListenImports._pretty(entry) on host h.
pretty(h, entry) ==
    IF entry.kind = "list" THEN <<"[">> \o Join(entry.val, <<",", " ">>) \o <<"]">>
    ELSE IF is_string(entry) /\ isabs(h, entry.val)
    THEN LET e == Replace(Replace(entry.val, S_py_class, S_py), S_pyc, S_py)
             tokens == Split(e, os_sep(h))
             index == IF tokens[Len(tokens)] # S_init_py THEN -1 ELSE -2
         IN  <<"/", "/">> \o Join(SliceFrom(tokens, index), <<"/">>)
    ELSE entry.val

\* sorted(attrs) for the attribute names the listener is given.
KeyOrder == <<"args", "importer", "source">>
sorted(attrs) == SelectSeq(KeyOrder, LAMBDA k : k \in DOMAIN attrs)

\* What _imported writes: the line of the import, then a line for each
\* attribute in sorted order, its value formatted by _pretty.
imported_lines(h, import_type, name, attrs) ==
    <<[key |-> "Imported", text |-> <<import_type, name>>]>>
      \o [i \in 1..Len(sorted(attrs)) |->
            [key |-> sorted(attrs)[i], text |-> pretty(h, attrs[sorted(attrs)[i]])]]

\* The attribute values the listener is called with: paths of up to
\* MaxDepth components, with and without a drive and a leading separator,
\* written with '/' or with '\\', the paths of the documentation's examples,
\* and lists.
S_a == <<"a">>
S_m_py_class == <<"m", "$", "p", "y", ".", "c", "l", "a", "s", "s">>
S_m_pyc == <<"m", ".", "p", "y", "c">>
S_ex_init == <<"/", "h", "o", "m", "e", "/", "u", "s", "e", "r", "/", "p", "r", "o", "j", "e", "c", "t", "/", "_", "_", "i", "n", "i", "t", "_", "_", ".", "p", "y">>
S_ex_class == <<"/", "h", "o", "m", "e", "/", "u", "s", "e", "r", "/", "p", "r", "o", "j", "e", "c", "t", "/", "m", "o", "d", "u", "l", "e", "$", "p", "y", ".", "c", "l", "a", "s", "s">>
S_ex_pyc == <<"/", "h", "o", "m", "e", "/", "u", "s", "e", "r", "/", "p", "r", "o", "j", "e", "c", "t", "/", "m", "o", "d", "u", "l", "e", ".", "p", "y", "c">>
S_ex_txt == <<"/", "h", "o", "m", "e", "/", "u", "s", "e", "r", "/", "s", "u", "i", "t", "e", ".", "t", "x", "t">>

Components == {S_a, S_init_py, S_m_py_class, S_m_pyc, <<>>}

ComponentSeqs ==
    {cs \in UNION {[1..n -> Components] : n \in 1..MaxDepth} : cs[1] # <<>>}

Drives == {<<>>, <<"C", ":">>}

Paths ==
    UNION {{d \o lead \o Join(cs, <<sep>>) :
              d \in Drives, lead \in {<<>>, <<sep>>}, cs \in ComponentSeqs} :
           sep \in {"/", "\\"}}

Examples == {S_ex_init, S_ex_class, S_ex_pyc, S_ex_txt, S_m_pyc}

Lists == {List(<<>>), List(<<S_a>>), List(<<S_ex_init, S_m_pyc>>)}

\* The source and args of an import call: the first call takes every path
\* with one list and one path with every list, the later ones one pair.
AllSourceArgs ==
    {<<Str(e), List(<<S_a>>)>> : e \in Paths \cup Examples}
      \cup {<<Str(S_ex_init), l>> : l \in Lists}

SourceArgs ==
    IF imports.lines = <<>> THEN AllSourceArgs
    ELSE {<<Str(S_ex_class), List(<<S_ex_init, S_m_pyc>>)>>}

NumImported == Cardinality({i \in 1..Len(imports.lines) : imports.lines[i].key = "Imported"})

\* _imported(import_type, name, attrs): the lines are written to the file
\* __init__ opened.
Imported(import_type, name, attrs) ==
    /\ imports.open
    /\ NumImported < MaxImports
    /\ imports' = [imports EXCEPT
                     !.lines = @ \o imported_lines(host, import_type, name, attrs)]
    /\ imported' = [type |-> import_type, name |-> name, attrs |-> attrs]
    /\ UNCHANGED pvars

\* library_import(name, attrs)
LibraryImport ==
    \E sa \in SourceArgs :
      Imported("Library", "OperatingSystem",
               [k \in {"args", "importer", "source"} |->
                  CASE k = "args" -> sa[2]
                    [] k = "importer" -> Str(S_ex_txt)
                    [] k = "source" -> sa[1]])

\* resource_import(name, attrs)
ResourceImport ==
    \E sa \in SourceArgs :
      Imported("Resource", "resource",
               [k \in {"importer", "source"} |->
                  IF k = "importer" THEN Str(S_ex_txt) ELSE sa[1]])

\* variables_import(name, attrs)
VariablesImport ==
    \E sa \in SourceArgs :
      Imported("Variables", "vars.py",
               [k \in {"args", "importer", "source"} |->
                  CASE k = "args" -> sa[2]
                    [] k = "importer" -> Str(S_ex_txt)
                    [] k = "source" -> sa[1]])

\* close()
Close ==
    /\ imports.open
    /\ imports' = [imports EXCEPT !.open = FALSE]
    /\ UNCHANGED <<imported, pvars>>

\* ListenImports(imports) was constructed: the file is open and empty.
InitListen ==
    /\ host \in Hosts
    /\ now = <<2013, 1, 5, 9, 3, 7>>
    /\ fs = InitFs
    /\ runs = 0
    /\ pc = "idle"
    /\ cmd = "absent"
    /\ args = <<>>
    /\ fs0 = InitFs
    /\ ver = None
    /\ exc = NoExc
    /\ failure = NoFailure
    /\ trace = <<>>
    /\ out = <<>>
    /\ exitCode = -1
    /\ keepRets = <<>>
    /\ imports = [open |-> TRUE, lines |-> <<>>]
    /\ imported = NoImport

NextListen ==
    \/ LibraryImport
    \/ ResourceImport
    \/ VariablesImport
    \/ Close

SpecListen == InitListen /\ [][NextListen]_vars

\* ================================================================ claims
Done == pc = "exited"

Ran(step) == \E i \in 1..Len(trace) : trace[i] = step

Printed(msg) == \E i \in 1..Len(out) : out[i][1] = msg

\* version() was the last step executed, with one or two arguments.
VersionRan ==
    /\ Len(trace) > 0
    /\ trace[Len(trace)] = "version"
    /\ pc # "version"
    /\ Len(args) \in {1, 2}

version_number == args[1]
release_tag == IF Len(args) = 2 THEN args[2] ELSE None

Wrote == Printed("Updated version to")

\* The stages of jar()'s try block, in the order of the code.
JarStages == <<"compile_java_classes", "unzip_jython_jar", "copy_robot_files",
               "compile_all_py_files", "overwrite_manifest", "create_jar_file">>

StageIndex(stage) == CHOOSE i \in 1..Len(JarStages) : JarStages[i] = stage

LaterStages(stage) == {JarStages[i] : i \in (StageIndex(stage) + 1)..Len(JarStages)}

\* C1 (as claimed): once jar has created tmp-jar-dir, the directory does not
\* exist when the invocation ends, on every exit path.
C1_StagingRemovedOnEveryExit ==
    (Done /\ cmd = "jar" /\ Ran("create_tmpdir")) => ~fs.tmp.exists

\* C2: when javac (stage 3) or the recompile (stage 6) of jar returns
\* non-zero, no later stage is executed, dist holds no archive that was not
\* there when the invocation started, and tmp-jar-dir does not exist when
\* the invocation has ended.
CompileFailed ==
    /\ cmd = "jar"
    /\ failure.kind = "nonzero"
    /\ failure.stage \in {"compile_java_classes", "compile_all_py_files"}

C2_CompileFailureAborts ==
    CompileFailed =>
        /\ \A st \in LaterStages(failure.stage) : ~Ran(st) /\ pc # st
        /\ fs.dist.files \subseteq fs0.dist.files
        /\ Done => ~fs.tmp.exists

C2_Witness ==
    /\ Done
    /\ CompileFailed
    /\ failure.stage = "compile_all_py_files"
    /\ fs0.dist.files # {}

\* C3 (as claimed): whenever a build, compile or package failure has been
\* reported, the process ends with a non-zero exit code.
FailureReported ==
    \/ Printed("Creating failed")
    \/ Printed("Unable to compile java classes!")
    \/ Printed("Unable to create jar!")

C3_ReportedFailureExitsNonZero ==
    (Done /\ FailureReported) => exitCode # 0

\* C4 (as claimed): when version_number or release_tag fails validation,
\* nothing has been changed and no download or external tool was started.
ValidationFailed ==
    /\ failure.stage \in {"version_number", "release_tag"}
    /\ failure.kind = "ValueError"

C4_ValidationBeforeAnyMutation ==
    ValidationFailed =>
        /\ fs = fs0
        /\ \A i \in 1..Len(trace) : trace[i] \in {"version", "get_jython_jar"}

\* ---------------------------------------------- the forms the claims name
AllDigits(s) == \A i \in 1..Len(s) : IsDigit(s[i])

Dots(s) == {i \in 1..Len(s) : s[i] = "."}

\* Two or three numeric components separated by dots.
IsDottedNumeric(s) ==
    /\ Cardinality(Dots(s)) \in {1, 2}
    /\ \A i \in 1..Len(s) : i \in Dots(s) \/ IsDigit(s[i])
    /\ 1 \notin Dots(s)
    /\ Len(s) \notin Dots(s)
    /\ \A i \in Dots(s) : i + 1 \notin Dots(s)

\* s without the newline it may end with.
Chomp(s) == IF Len(s) > 0 /\ s[Len(s)] = NL THEN SubSeq(s, 1, Len(s) - 1) ELSE s

\* '2.x' or '2.x.y', possibly followed by one newline.
IsTwoDotted(s) ==
    /\ IsDottedNumeric(Chomp(s))
    /\ s[1] = "2"
    /\ 2 \in Dots(s)

HasPrefix(s, p) == Len(s) >= Len(p) /\ SubSeq(s, 1, Len(p)) = p

\* 'final', or 'alpha', 'beta' or 'rc' with an optional number after it.
IsDocumentedTag(s) ==
    \/ s = S_final
    \/ \E p \in {S_alpha, S_beta, <<"r", "c">>} :
         HasPrefix(s, p) /\ AllDigits(SubSeq(s, Len(p) + 1, Len(s)))

DigitValue(c) == CHOOSE d \in 0..9 : DigitChars[d + 1] = c

RECURSIVE NumberOf(_)
NumberOf(s) == IF Len(s) = 0 THEN 0
               ELSE 10 * NumberOf(SubSeq(s, 1, Len(s) - 1)) + DigitValue(s[Len(s)])

PassedVersionNumber == failure.stage # "version_number"
PassedReleaseTag == PassedVersionNumber /\ failure.stage # "release_tag"

\* C5 (as claimed): for a numeric version_number, version() accepts
\* release_tag exactly when it is 'final' or 'alpha', 'beta' or 'rc' with an
\* optional number; it then writes version.py with that tag, and for any
\* other tag it raises the release-tag error and writes nothing.
C5_DocumentedTagsAccepted ==
    (/\ VersionRan
     /\ Len(args) = 2
     /\ PassedVersionNumber
     /\ version_number \notin {S_trunk, S_keep}) =>
        IF IsDocumentedTag(release_tag)
        THEN Wrote /\ fs.version.RELEASE = <<QUOTE>> \o release_tag \o <<QUOTE>>
        ELSE /\ failure.stage = "release_tag"
             /\ exc.type = "ValueError"
             /\ ~Wrote
             /\ fs.version = fs0.version

StoredVersion(file) ==
    IF LiteralValue(file.RELEASE) = S_final THEN LiteralValue(file.VERSION)
    ELSE LiteralValue(file.VERSION) \o LiteralValue(file.RELEASE)

\* C7 (as claimed): with version_number 'keep', version() never writes
\* version.py whatever release_tag is, it returns the version string that
\* the stored VERSION and RELEASE stand for, and all the calls with 'keep'
\* since the last write returned the same value.
C7_KeepReturnsStored ==
    (VersionRan /\ version_number = S_keep) =>
        /\ fs.version = fs0.version
        /\ ~Wrote
        /\ exc.type = "none"
        /\ ver = StoredVersion(fs0.version)
        /\ \A i \in 1..Len(keepRets) : keepRets[i] = keepRets[1]

\* C8: with version_number 'trunk', the RELEASE written is the local date
\* as eight digits YYYYMMDD whatever release_tag is (absent, valid or not);
\* release_tag is not written and raises nothing.
C8_TrunkReleaseIsDate ==
    (VersionRan /\ version_number = S_trunk) =>
        /\ exc.type = "none"
        /\ Wrote
        /\ LiteralOk(fs.version.RELEASE)
        /\ LET r == LiteralValue(fs.version.RELEASE) IN
             /\ Len(r) = 8
             /\ AllDigits(r)
             /\ NumberOf(r) = now[1] * 10000 + now[2] * 100 + now[3]
             /\ r # release_tag

C8_Witness ==
    /\ VersionRan
    /\ version_number = S_trunk
    /\ release_tag = S_bogus
    /\ Wrote
    /\ LiteralValue(fs.version.RELEASE) = <<"2", "0", "1", "3", "0", "1", "0", "5">>

\* C9 (as claimed): get_version(sep) is VERSION for a 'final' RELEASE and
\* VERSION sep RELEASE otherwise; after version('2.1.13', 'final') it
\* returns '2.1.13', after version('2.1.13', 'alpha2') '2.1.13 alpha2'; and
\* version() returns get_version('').
C9_GetVersionExamples ==
    VersionRan =>
        /\ (exc.type = "none") =>
             /\ ImportOk(fs.version)
             /\ ver = StoredVersion(fs.version)
             /\ \A sep \in {<<>>, <<" ">>} :
                  get_version(ImportVersion(fs.version), sep) =
                    IF LiteralValue(fs.version.RELEASE) = S_final
                    THEN LiteralValue(fs.version.VERSION)
                    ELSE LiteralValue(fs.version.VERSION) \o sep
                           \o LiteralValue(fs.version.RELEASE)
        /\ (args = <<S_2_1_13, S_final>>) =>
             /\ exc.type = "none"
             /\ get_version(ImportVersion(fs.version), <<" ">>) = S_2_1_13
        /\ (args = <<S_2_1_13, S_alpha2>>) =>
             /\ exc.type = "none"
             /\ get_version(ImportVersion(fs.version), <<" ">>)
                  = S_2_1_13 \o <<" ">> \o S_alpha2

\* C10 (as claimed): whenever version() has written version.py, importing
\* it gives VERSION equal to the version_number and RELEASE equal to the
\* release tag that were written.
C10_RoundTrip ==
    (VersionRan /\ Wrote) =>
        /\ ImportOk(fs.version)
        /\ ImportVersion(fs.version).VERSION = version_number
        /\ ImportVersion(fs.version).RELEASE =
             IF version_number = S_trunk THEN FormatDate(now) ELSE release_tag

\* ------------------------------------------------ the installer and sdist
PrintedAbout(msg, what) == \E i \in 1..Len(out) : out[i] = Line(msg, what)

Installers(files) == {f \in files : f.kind = "wininst"}

FinalElsewhere ==
    /\ cmd \in {"wininst", "all"}
    /\ Len(args) = 2
    /\ args[2] = S_final
    /\ host # "windows"

\* C11: wininst and all called with release_tag 'final' on a host that is
\* not Windows never start the installer build and add no installer to dist;
\* the skip is printed, no failure of the installer is reported, the
\* invocation ends with exit status 0 once the platform test was made, and
\* for 'all' the source distribution is in dist and is announced.
C11_FinalInstallerSkipped ==
    FinalElsewhere =>
        /\ ~Ran("create_wininst") /\ pc # "create_wininst"
        /\ Installers(fs.dist.files) \subseteq Installers(fs0.dist.files)
        /\ ~PrintedAbout("Creating", "Windows installer")
        /\ ~PrintedAbout("Creating failed", "Windows installer")
        /\ Ran("verify_platform") =>
              /\ PrintedAbout("was not created", "Windows installer")
              /\ exc = NoExc
              /\ Done => exitCode = 0
              /\ cmd = "all" =>
                    /\ \E f \in fs.dist.files : f.kind = "sdist"
                    /\ PrintedAbout("created successfully", "source distribution")
                    /\ pc \in {"announce", "return", "exited"}
                    /\ Done => Ran("announce") /\ Printed("Created:")

C11_Witness ==
    /\ Done
    /\ FinalElsewhere
    /\ cmd = "all"
    /\ args = <<S_2_7, S_final>>
    /\ Ran("verify_platform")
    /\ Printed("Created:")

\* C12: when setup.py ends with a non-zero status the failure is printed and
\* the command function is left at once with SystemExit: no later step is
\* executed, the installer is not attempted after a failed source
\* distribution, 'Created:' is never printed, and the failed build left no
\* artifact; a build step that did not print a failure printed its success.
BuildFailed == cmd \in {"sdist", "wininst", "all"} /\ Printed("Creating failed")

BuildSteps == {"create_sdist", "create_wininst"}

C12_FailedBuildAborts ==
    /\ BuildFailed =>
          /\ exc.type = "SystemExit" /\ exc.arg # 0
          /\ pc \in {"except", "exited"}
          /\ trace[Len(trace)] \in BuildSteps
          /\ ~Ran("announce") /\ ~Printed("Created:")
          /\ PrintedAbout("Creating failed", "source distribution") =>
                /\ ~Ran("verify_platform") /\ ~Ran("create_wininst")
                /\ fs.dist.files = {}
          /\ PrintedAbout("Creating failed", "Windows installer") =>
                Installers(fs.dist.files) = {}
    /\ (cmd \in {"sdist", "wininst", "all"} /\ ~BuildFailed) =>
          /\ Ran("create_sdist") =>
                PrintedAbout("created successfully", "source distribution")
          /\ Ran("create_wininst") =>
                PrintedAbout("created successfully", "Windows installer")

C12_Witness ==
    /\ Done
    /\ cmd = "all"
    /\ PrintedAbout("Creating failed", "source distribution")
    /\ fs0.dist.files # {}

\* C13 (as claimed): in sdist, wininst, all and jar the first step executed
\* is version(), the second is _clean(), and only then a download, build,
\* compile or packaging step.
C13_VersionThenCleanThenBuild ==
    cmd \in {"sdist", "wininst", "all", "jar"} =>
        /\ Len(trace) >= 1 => trace[1] = "version"
        /\ Len(trace) >= 2 => trace[2] = "clean"

\* C14 (as claimed): an unknown command, no command, or a command called
\* with no argument or with more than two ends with the usage text printed
\* and no exception leaving the main block, for every command of the table.
UsageCase == cmd \notin CommandTable \/ Len(args) \notin {1, 2}

C14_UsageErrorsPrintUsage ==
    (Done /\ UsageCase) =>
        /\ Printed("__doc__")
        /\ exc.type \in UsageErrors
        /\ exitCode = 0

\* C16 (as claimed): when the tool of stage 3, 6 or 8 of jar returns
\* non-zero or cannot be started, no exception leaves jar(): the failure is
\* printed and jar() returns after removing tmp-jar-dir.
ToolStages == {"compile_java_classes", "compile_all_py_files", "create_jar_file"}

ToolFailed ==
    /\ cmd = "jar"
    /\ failure.stage \in ToolStages
    /\ failure.kind \in {"nonzero", "notfound"}

C16_ToolFailureNeverEscapes ==
    ToolFailed =>
        /\ exc = NoExc
        /\ Printed("Unable to compile java classes!") \/ Printed("Unable to create jar!")
        /\ pc \in {"rmtree", "return", "exited"}
        /\ Done => ~fs.tmp.exists

\* C18 (as claimed): the message printed for a failed stage of jar names the
\* tool of that stage: javac for stage 3, java (Jython's compileall) for
\* stage 6, jar for stage 8.
ToolOf(stage) ==
    CASE stage = "compile_java_classes" -> "javac"
      [] stage = "compile_all_py_files" -> "java"
      [] stage = "create_jar_file" -> "jar"

JarFailureLines ==
    {i \in 1..Len(out) : out[i][1] \in {"Unable to compile java classes!",
                                         "Unable to create jar!"}}

C18_MessageNamesFailedTool ==
    (cmd = "jar" /\ failure.stage \in ToolStages) =>
        \A i \in JarFailureLines : out[i][2] = ToolOf(failure.stage)

\* C19: whenever jar is at, or past, _create_jar_file, the manifest was
\* written after the Jython jar was extracted and no stage but
\* _create_jar_file and the final rmtree followed; while tmp-jar-dir is
\* there its manifest holds what version() returned to this invocation,
\* which is the version of version.py, and once the jar tool has succeeded
\* dist exists and holds robotframework-<that version>.jar.  dist exists
\* as soon as the jar tool was started.
Position(step) == CHOOSE i \in 1..Len(trace) : trace[i] = step

AtPackage == cmd = "jar" /\ (pc = "create_jar_file" \/ Ran("create_jar_file"))

C19_ManifestAndArchiveCarryVersion ==
    AtPackage =>
        /\ Ran("unzip_jython_jar") /\ Ran("overwrite_manifest")
        /\ Position("unzip_jython_jar") < Position("overwrite_manifest")
        /\ \A i \in (Position("overwrite_manifest") + 1)..Len(trace) :
              trace[i] \in {"create_jar_file", "rmtree"}
        /\ ver # None
        /\ ImportOk(fs.version) /\ ver = get_version(ImportVersion(fs.version), <<>>)
        /\ fs.tmp.exists => fs.tmp.manifest = ver
        /\ (Ran("create_jar_file") /\ failure.kind \in {"none", "nonzero", "notfound"}) =>
              fs.dist.exists
        /\ (Ran("create_jar_file") /\ failure = NoFailure) =>
              /\ [kind |-> "jar", ver |-> ver] \in fs.dist.files
              /\ \A f \in fs.dist.files \ fs0.dist.files : f = [kind |-> "jar", ver |-> ver]

C19_Witness ==
    /\ Done
    /\ cmd = "jar"
    /\ args = <<S_2_7, S_a1>>
    /\ Ran("create_jar_file")
    /\ failure = NoFailure
    /\ ~fs0.dist.exists
    /\ [kind |-> "jar", ver |-> S_2_7 \o S_a1] \in fs.dist.files

\* C20 (as claimed): on a host that is not Windows, wininst and all never
\* start the installer build when the release tag of the version in effect,
\* the RELEASE of version.py after version() returned, is 'final'.
EffectiveFinal ==
    /\ Ran("version")
    /\ exc = NoExc
    /\ ImportOk(fs.version)
    /\ ImportVersion(fs.version).RELEASE = S_final

C20_NoFinalInstallerElsewhere ==
    (host # "windows" /\ cmd \in {"wininst", "all"} /\ EffectiveFinal) =>
        ~Ran("create_wininst") /\ pc # "create_wininst"

\* C15 (as claimed): after _compile_all_py_files succeeded, the .py files
\* _copy_robot_files put under Lib/robot are still in tmp-jar-dir, and the
\* .py files of Jython's library are the ones removed.
Recompiled ==
    /\ cmd = "jar"
    /\ Ran("compile_all_py_files")
    /\ failure.stage # "compile_all_py_files"
    /\ fs.tmp.exists

C15_ProjectSourcesRetained ==
    Recompiled =>
        /\ "Lib/robot/*.py" \in fs.tmp.files
        /\ "Lib/*.py" \notin fs.tmp.files

\* C15 (amended): after _compile_all_py_files succeeded, no .py file is
\* left under Lib/robot, the compiled classes of the project are there, and
\* the .py files of Jython's library are kept next to their classes.
C15_ProjectSourcesRemoved ==
    Recompiled =>
        /\ "Lib/robot/*.py" \notin fs.tmp.files
        /\ "Lib/robot/*$py.class" \in fs.tmp.files
        /\ {"Lib/*.py", "Lib/*$py.class"} \subseteq fs.tmp.files

C15_Witness ==
    /\ Recompiled
    /\ pc = "create_jar_file"
    /\ "Lib/robot/*$py.class" \in fs.tmp.files

\* ------------------------------------------------------------ the listener
\* The lines the last import call wrote, and the text written for an
\* attribute of that call.
WasImported == imported.type # "none"

LastLines ==
    SubSeq(imports.lines, Len(imports.lines) - Cardinality(DOMAIN imported.attrs),
           Len(imports.lines))

TextOf(key) ==
    LET i == CHOOSE k \in 1..Len(LastLines) : LastLines[k].key = key
    IN  LastLines[i].text

\* The place of the last separator of s, 0 when there is none; what follows
\* it, and what precedes it.
LastSep(s, sep) ==
    IF \A i \in 1..Len(s) : s[i] # sep THEN 0
    ELSE CHOOSE k \in 1..Len(s) : s[k] = sep /\ \A j \in (k + 1)..Len(s) : s[j] # sep

BaseName(s, sep) == SubSeq(s, LastSep(s, sep) + 1, Len(s))
DirName(s, sep) == SubSeq(s, 1, LastSep(s, sep) - 1)

EndsWith(s, t) == Len(s) >= Len(t) /\ SubSeq(s, Len(s) - Len(t) + 1, Len(s)) = t
Contains(s, t) == \E i \in 1..(Len(s) - Len(t) + 1) : SubSeq(s, i, i + Len(t) - 1) = t

AbsSources ==
    {k \in DOMAIN imported.attrs :
       imported.attrs[k].kind = "str" /\ isabs(host, imported.attrs[k].val)}

\* C17 (as claimed): for an absolute path whose last component is
\* '__init__.py' the text written leaves the file name out and ends with
\* '/' and the path of the containing directory; for the paths of
\* module$py.class and module.pyc it shows module.py; lists and strings
\* that are not absolute paths are not normalized.
C17_InitPyElided ==
    WasImported =>
        /\ \A k \in AbsSources :
              LET e == imported.attrs[k].val IN
                /\ BaseName(e, os_sep(host)) = S_init_py =>
                      /\ EndsWith(TextOf(k), <<"/">> \o DirName(e, os_sep(host)))
                      /\ ~EndsWith(TextOf(k), S_init_py)
                /\ e \in {S_ex_class, S_ex_pyc} => Contains(TextOf(k), <<"m", "o", "d", "u", "l", "e", ".", "p", "y">>)
        /\ \A k \in DOMAIN imported.attrs \ AbsSources :
              imported.attrs[k].kind = "str" => TextOf(k) = imported.attrs[k].val

\* C17 (amended): for a string that os.path.isabs accepts, every '$py.class'
\* and then every '.pyc' is replaced by '.py', and the text written is '//'
\* and the last component, split at os.sep; when that component is
\* '__init__.py' it is kept and the name of the directory before it comes
\* first, joined with '/'.  On POSIX '/home/user/project/__init__.py' gives
\* '//project/__init__.py', and the paths of module$py.class and module.pyc
\* give '//module.py'.  A list is written as '[' its items joined with
\* ', ' ']', its items as they are, and any other string unchanged; the
\* attributes are written in sorted order.
Renamed(e) == Replace(Replace(e, S_py_class, S_py), S_pyc, S_py)

C17_InitPyKeptAfterDirName ==
    WasImported =>
        /\ \A k \in AbsSources :
              LET r == Renamed(imported.attrs[k].val)
                  sep == os_sep(host)
              IN  /\ BaseName(r, sep) # S_init_py =>
                        TextOf(k) = <<"/", "/">> \o BaseName(r, sep)
                  /\ BaseName(r, sep) = S_init_py =>
                        TextOf(k) = <<"/", "/">> \o BaseName(DirName(r, sep), sep)
                                      \o <<"/">> \o S_init_py
        /\ host = "posix" =>
              \A k \in DOMAIN imported.attrs :
                /\ imported.attrs[k] = Str(S_ex_init) => TextOf(k) = <<"/", "/", "p", "r", "o", "j", "e", "c", "t", "/", "_", "_", "i", "n", "i", "t", "_", "_", ".", "p", "y">>
                /\ imported.attrs[k] \in {Str(S_ex_class), Str(S_ex_pyc)} =>
                      TextOf(k) = <<"/", "/", "m", "o", "d", "u", "l", "e", ".", "p", "y">>
        /\ \A k \in DOMAIN imported.attrs \ AbsSources :
              /\ imported.attrs[k].kind = "str" => TextOf(k) = imported.attrs[k].val
              /\ imported.attrs[k] = List(<<>>) => TextOf(k) = <<"[", "]">>
              /\ imported.attrs[k] = List(<<S_a>>) => TextOf(k) = <<"[", "a", "]">>
              /\ imported.attrs[k] = List(<<S_ex_init, S_m_pyc>>) =>
                    TextOf(k) = <<"[">> \o S_ex_init \o <<",", " ">> \o S_m_pyc \o <<"]">>
        /\ \A i, j \in 2..Len(LastLines) :
              i < j => \E a, b \in 1..Len(KeyOrder) :
                         a < b /\ KeyOrder[a] = LastLines[i].key /\ KeyOrder[b] = LastLines[j].key

C17_Witness ==
    /\ WasImported
    /\ host = "posix"
    /\ imported.attrs["source"] = Str(S_ex_init)
    /\ TextOf("source") = <<"/", "/", "p", "r", "o", "j", "e", "c", "t", "/", "_", "_", "i", "n", "i", "t", "_", "_", ".", "p", "y">>

====
